---- MODULE Spec2Model ----
(***************************************************************************)
(* Linearized ADMM solver (scico/ladmm.py, class LinearizedADMM).          *)
(*                                                                         *)
(* A solver instance is a record holding the attributes of the Python     *)
(* object together with the position of a running solve() call.  Arrays   *)
(* are sequences of exact rationals <<num, den>>, so that the dyadic      *)
(* values the iteration produces are represented without rounding.        *)
(***************************************************************************)
EXTENDS Integers, Sequences, FiniteSets, TLC

\* slv[i]: the solver instances; now: the wall clock; obs: what the last
\* call of the driver returned or raised
VARIABLES slv, now, obs

vars == <<slv, now, obs>>

(***************************************************************************)
(* Bounds of the model.                                                    *)
(***************************************************************************)
\* largest iteration budget (maxiter) a caller chooses
MaxBudget == 2
\* largest number of step() executions of one solver instance
MaxSteps == 3
\* largest number of collaborator failures injected into one instance
MaxFaults == 1
\* largest number of solve() calls on one solver instance
MaxCalls == 2

Inst == {1, 2}

(***************************************************************************)
(* Exact rational arithmetic (the floating point values of the arrays).   *)
(***************************************************************************)
Abs(n) == IF n < 0 THEN -n ELSE n

RECURSIVE GCD(_, _)
GCD(a, b) == IF b = 0 THEN a ELSE GCD(b, a % b)

RNorm(n, d) ==
    LET g == GCD(Abs(n), Abs(d))
        sg == IF d < 0 THEN -1 ELSE 1
    IN  <<(sg * n) \div g, (sg * d) \div g>>

R(n) == <<n, 1>>
LCM(a, b) == (a \div GCD(a, b)) * b
RAdd(a, b) ==
    LET l == LCM(a[2], b[2])
    IN  RNorm(a[1] * (l \div a[2]) + b[1] * (l \div b[2]), l)
RSub(a, b) == RAdd(a, <<-b[1], b[2]>>)
RMul(a, b) == RNorm(a[1] * b[1], a[2] * b[2])
RDiv(a, b) == RNorm(a[1] * b[2], a[2] * b[1])
RLe(a, b) == a[1] * b[2] <= b[1] * a[2]
RAbs(a) == <<Abs(a[1]), a[2]>>
RMax(a, b) == IF RLe(a, b) THEN b ELSE a

RECURSIVE RSum(_)
RSum(v) == IF v = <<>> THEN R(0) ELSE RAdd(v[1], RSum(Tail(v)))

\* elementwise array arithmetic
VAdd(a, b) == [i \in 1..Len(a) |-> RAdd(a[i], b[i])]
VSub(a, b) == [i \in 1..Len(a) |-> RSub(a[i], b[i])]
VScale(c, a) == [i \in 1..Len(a) |-> RMul(c, a[i])]
Zeros(n) == [i \in 1..n |-> R(0)]

\* the value of an objective: a rational, or +infinity (an indicator off its set)
Inf == <<1, 0>>
IsInf(a) == a[2] = 0
EAdd(a, b) == IF IsInf(a) \/ IsInf(b) THEN Inf ELSE RAdd(a, b)

(***************************************************************************)
(* LinearOperator collaborator: a real matrix given by its rows, with      *)
(* forward application, adjoint (transpose) and declared shapes.           *)
(***************************************************************************)
Identity == << <<1, 0>>, <<0, 1>> >>
Shear == << <<1, 1>>, <<0, 1>> >>
LinOps == {Identity, Shear}

input_shape(C) == Len(C[1])
output_shape(C) == Len(C)

\* C(x): requires x to have the declared input shape
C_apply(C, x) ==
    [i \in 1..Len(C) |-> RSum([j \in 1..Len(x) |-> RMul(R(C[i][j]), x[j])])]

\* C.conj().T(y) and C.adj(y)
C_adj(C, y) ==
    [j \in 1..Len(C[1]) |-> RSum([i \in 1..Len(y) |-> RMul(R(C[i][j]), y[i])])]

(***************************************************************************)
(* Functional collaborators: evaluation (when has_eval) and prox.          *)
(***************************************************************************)
has_eval(fn) == fn # "DnCNN"

\* the measurement y of the loss 0.5 * ||y - x||^2
LossY(n) == [i \in 1..n |-> R(1)]

Soft(v, lam) ==
    LET m == RMax(RSub(RAbs(v), lam), R(0))
    IN  IF v[1] < 0 THEN RSub(R(0), m) ELSE m

Mean(v) == RDiv(RSum(v), R(Len(v)))

\* fn.prox(v, lam, v0): the closed forms ignore the warm start v0
FProx(fn, v, lam, v0) ==
    CASE fn = "ZeroFunctional" -> v
      [] fn = "SquaredL2Loss" ->
            [i \in 1..Len(v) |->
                RDiv(RAdd(v[i], RMul(lam, LossY(Len(v))[i])), RAdd(R(1), lam))]
      [] fn = "NonNegativeIndicator" -> [i \in 1..Len(v) |-> RMax(v[i], R(0))]
      [] fn = "L1Norm" -> [i \in 1..Len(v) |-> Soft(v[i], lam)]
      [] fn = "DnCNN" ->
            [i \in 1..Len(v) |-> Mean(v)]

\* fn(x) for a functional with has_eval
FEval(fn, x) ==
    CASE fn = "ZeroFunctional" -> R(0)
      [] fn = "SquaredL2Loss" ->
            LET d == VSub(LossY(Len(x)), x)
            IN  RDiv(RSum([i \in 1..Len(x) |-> RMul(d[i], d[i])]), R(2))
      [] fn = "NonNegativeIndicator" ->
            IF \A i \in 1..Len(x) : RLe(R(0), x[i]) THEN R(0) ELSE Inf
      [] fn = "L1Norm" -> RSum([i \in 1..Len(x) |-> RAbs(x[i])])

\* norm(v): the Euclidean norm, kept exact as the square root of a rational
norm(v) == [sqrt |-> RSum([i \in 1..Len(v) |-> RMul(v[i], v[i])])]

(***************************************************************************)
(* Timer collaborator: a pausable accumulator of elapsed wall time.        *)
(***************************************************************************)
Timer == [running |-> FALSE, t0 |-> 0, total |-> 0]

timer_start(t, clock) ==
    IF t.running THEN t ELSE [t EXCEPT !.running = TRUE, !.t0 = clock]

timer_stop(t, clock) ==
    IF t.running
    THEN [t EXCEPT !.running = FALSE, !.total = t.total + (clock - t.t0)]
    ELSE t

timer_elapsed(t, clock) ==
    IF t.running THEN t.total + (clock - t.t0) ELSE t.total

(***************************************************************************)
(* LinearizedADMM: construction.                                           *)
(***************************************************************************)
\* an optional argument: NoArg is Python's None, Some(v) a supplied value
NoArg == <<>>
Some(v) == <<v>>

\* the default diagnostics schema and its insert function, chosen from g.has_eval
\* a schema that keeps the Objective field whatever g is
itstat_fields_KeepObjective(g) ==
    <<"Iter", "Time", "Objective", "Primal Rsdl", "Dual Rsdl">>

itstat_fields(g) ==
    IF has_eval(g)
    THEN <<"Iter", "Time", "Objective", "Primal Rsdl", "Dual Rsdl">>
    ELSE <<"Iter", "Time", "Primal Rsdl", "Dual Rsdl">>

itstat_func_of(g) == IF has_eval(g) THEN "with_objective" ELSE "without_objective"

\* z = C(x0), z_old = z.copy()
z_init(C, x0) == LET z == C_apply(C, x0) IN <<z, z>>

\* u = zeros(C.output_shape)
u_init(C, x0) == Zeros(output_shape(C))

\* the iterates of a solver
Iterates(s) == <<s.x, s.z, s.z_old, s.u>>

\* the attributes of a solver that a step() call may read or write
Attributes(s) ==
    [x |-> s.x, z |-> s.z, z_old |-> s.z_old, u |-> s.u, itnum |-> s.itnum,
     history |-> s.history, mu |-> s.mu, nu |-> s.nu, maxiter |-> s.maxiter]

\* the attributes of a solver that does not exist yet, and the history
\* variables of the model: the events (ev), start counter (n0), budget (m0),
\* completed steps (done) and history length at entry (h0) of the latest
\* solve() call, the budgets of the calls that returned, the iterates after
\* the last completed step() (snap), the solver as the latest step() call
\* found it (pre), the warm starts that call handed to f.prox and g.prox
\* (warm), whether z_old is the very object z (aliased), and the initial
\* iterate the solver was built with (x0)
Unbuilt ==
    [pc |-> "new", f |-> "None", g |-> "None", C |-> <<>>, mu |-> R(0), nu |-> R(0),
     itnum |-> 0, maxiter |-> 0, timer |-> Timer,
     fields |-> <<>>, insert_func |-> "None", history |-> <<>>,
     x |-> <<>>, z |-> <<>>, z_old |-> <<>>, u |-> <<>>,
     rng |-> [next |-> 0, stop |-> 0], callback |-> "None", exc |-> "None",
     ev |-> <<>>, n0 |-> 0, m0 |-> 0, done |-> 0, nsteps |-> 0, faults |-> 0,
     budgets |-> <<>>, clean |-> TRUE,
     ret |-> <<>>, ncalls |-> 0, h0 |-> 0, snap |-> <<>>,
     pre |-> <<>>, warm |-> <<>>, aliased |-> FALSE, x0 |-> <<>>]

\* __init__(f, g, C, mu, nu, x0, maxiter), itstat left at None.  C(x0) in
\* z_init raises for an x0 that does not have C's input shape.
init(f, g, C, mu, nu, x0, maxiter) ==
    LET xinit == IF x0 = NoArg THEN Zeros(input_shape(C)) ELSE x0[1]
    IN  IF Len(xinit) # input_shape(C)
        THEN [Unbuilt EXCEPT !.exc = "ValueError"]
        ELSE [Unbuilt EXCEPT
                !.pc = "idle", !.f = f, !.g = g, !.C = C, !.mu = mu, !.nu = nu,
                !.itnum = 0, !.maxiter = maxiter, !.timer = Timer,
                !.fields = itstat_fields(g), !.insert_func = itstat_func_of(g),
                !.x = xinit,
                !.z = z_init(C, xinit)[1], !.z_old = z_init(C, xinit)[2],
                !.u = u_init(C, xinit), !.aliased = FALSE, !.x0 = xinit,
                !.snap = <<xinit, z_init(C, xinit)[1], z_init(C, xinit)[2],
                           u_init(C, xinit)>>]

(***************************************************************************)
(* LinearizedADMM: objective and residuals.                                *)
(***************************************************************************)
\* an objective that rejects an absent argument even when both are absent
objective_RejectNone(s, x, z) ==
    IF (x = NoArg) \/ (z = NoArg)
    THEN [exc |-> "ValueError", val |-> R(0), evals |-> <<>>]
    ELSE [exc |-> IF has_eval(s.g) THEN "None" ELSE "NotEvaluable",
          val |-> IF has_eval(s.g)
                  THEN EAdd(IF s.f # "None" THEN FEval(s.f, x[1]) ELSE R(0),
                            FEval(s.g, z[1]))
                  ELSE R(0),
          evals |-> <<>>]

\* objective(x, z): the exception raised ("None" if none), the value returned
\* and the functionals evaluated on the way.
objective(s, x, z) ==
    IF (x = NoArg) # (z = NoArg)
    THEN [exc |-> "ValueError", val |-> R(0), evals |-> <<>>]
    ELSE LET xx == IF x = NoArg THEN s.x ELSE x[1]
             zz == IF x = NoArg THEN s.z ELSE z[1]
             out0 == R(0)
             out1 == IF s.f # "None" THEN EAdd(out0, FEval(s.f, xx)) ELSE out0
             ev1 == IF s.f # "None" THEN <<"f">> ELSE <<>>
         IN  IF ~has_eval(s.g)
             THEN [exc |-> "NotEvaluable", val |-> R(0), evals |-> ev1]
             ELSE [exc |-> "None", val |-> EAdd(out1, FEval(s.g, zz)),
                   evals |-> Append(ev1, "g")]

\* norm_primal_residual(x): the argument is read only to default it
norm_primal_residual(s, x) ==
    LET xx == IF x = NoArg THEN s.x ELSE x[1]
    IN  norm(VSub(C_apply(s.C, s.x), s.z))

norm_dual_residual(s) == norm(C_adj(s.C, VSub(s.z, s.z_old)))

\* the default insert functions; the one without the objective reads obj.i,
\* an attribute the solver does not have
itstat_insert_func(s, clock) ==
    IF s.insert_func = "with_objective"
    THEN LET o == objective(s, NoArg, NoArg)
         IN  IF o.exc # "None"
             THEN [exc |-> o.exc, rec |-> <<>>]
             ELSE [exc |-> "None",
                   rec |-> <<s.itnum, timer_elapsed(s.timer, clock), o.val,
                             norm_primal_residual(s, NoArg), norm_dual_residual(s)>>]
    ELSE [exc |-> "AttributeError", rec |-> <<>>]

(***************************************************************************)
(* LinearizedADMM.step                                                     *)
(***************************************************************************)
\* the collaborator calls of step() that can fail, by source line
Faults == {"C@311", "f.prox@312", "C@315", "g.prox@316"}

\* step(): one iteration; fault names the collaborator call that raises
\* ("none": no call raises).  The statements before the raising call have
\* taken effect.
\* step() with the sign of the dual update reversed: u - (C(x) - z)
step_DualSign(s, fault) ==
    LET r == VAdd(VSub(C_apply(s.C, s.x), s.z), s.u)
        proxarg == VSub(s.x, VScale(RDiv(s.mu, s.nu), C_adj(s.C, r)))
        x1 == FProx(s.f, proxarg, s.mu, s.x)
        s1 == [s EXCEPT !.x = x1, !.warm = <<s.x>>]
        s2 == [s1 EXCEPT !.z_old = s1.z, !.aliased = FALSE]
        Cx == C_apply(s.C, s2.x)
        z1 == FProx(s.g, VAdd(Cx, s2.u), s.nu, s2.z)
        s3 == [s2 EXCEPT !.z = z1, !.aliased = FALSE, !.warm = <<s.x, s2.z>>]
        s4 == [s3 EXCEPT !.u = VAdd(VSub(s3.u, Cx), s3.z)]
    IN  CASE fault = "C@311" -> [s EXCEPT !.exc = "OperatorError"]
          [] fault # "C@311" /\ s.f = "None" -> [s EXCEPT !.exc = "AttributeError"]
          [] fault = "f.prox@312" /\ s.f # "None" ->
                [s EXCEPT !.exc = "FunctionalError"]
          [] fault = "C@315" /\ s.f # "None" -> [s2 EXCEPT !.exc = "OperatorError"]
          [] fault = "g.prox@316" /\ s.f # "None" ->
                [s2 EXCEPT !.exc = "FunctionalError"]
          [] fault = "none" /\ s.f # "None" -> [s4 EXCEPT !.exc = "None"]

\* step() with the dual update taken against z_old instead of the new z
step_UOldZ(s, fault) ==
    LET r == VAdd(VSub(C_apply(s.C, s.x), s.z), s.u)
        proxarg == VSub(s.x, VScale(RDiv(s.mu, s.nu), C_adj(s.C, r)))
        x1 == FProx(s.f, proxarg, s.mu, s.x)
        s1 == [s EXCEPT !.x = x1, !.warm = <<s.x>>]
        s2 == [s1 EXCEPT !.z_old = s1.z, !.aliased = FALSE]
        Cx == C_apply(s.C, s2.x)
        z1 == FProx(s.g, VAdd(Cx, s2.u), s.nu, s2.z)
        s3 == [s2 EXCEPT !.z = z1, !.aliased = FALSE, !.warm = <<s.x, s2.z>>]
        s4 == [s3 EXCEPT !.u = VSub(VAdd(s3.u, Cx), s3.z_old)]
    IN  CASE fault = "C@311" -> [s EXCEPT !.exc = "OperatorError"]
          [] fault # "C@311" /\ s.f = "None" -> [s EXCEPT !.exc = "AttributeError"]
          [] fault = "f.prox@312" /\ s.f # "None" ->
                [s EXCEPT !.exc = "FunctionalError"]
          [] fault = "C@315" /\ s.f # "None" -> [s2 EXCEPT !.exc = "OperatorError"]
          [] fault = "g.prox@316" /\ s.f # "None" ->
                [s2 EXCEPT !.exc = "FunctionalError"]
          [] fault = "none" /\ s.f # "None" -> [s4 EXCEPT !.exc = "None"]

\* step() that saves z_old after the z-update, and without copying
step_ZOldAfter(s, fault) ==
    LET r == VAdd(VSub(C_apply(s.C, s.x), s.z), s.u)
        proxarg == VSub(s.x, VScale(RDiv(s.mu, s.nu), C_adj(s.C, r)))
        x1 == FProx(s.f, proxarg, s.mu, s.x)
        s1 == [s EXCEPT !.x = x1, !.warm = <<s.x>>]
        s2 == [s1 EXCEPT !.z_old = s1.z, !.aliased = FALSE]
        Cx == C_apply(s.C, s2.x)
        z1 == FProx(s.g, VAdd(Cx, s2.u), s.nu, s2.z)
        s3 == [s2 EXCEPT !.z = z1, !.z_old = z1, !.aliased = TRUE, !.warm = <<s.x, s2.z>>]
        s4 == [s3 EXCEPT !.u = VSub(VAdd(s3.u, Cx), s3.z)]
    IN  CASE fault = "C@311" -> [s EXCEPT !.exc = "OperatorError"]
          [] fault # "C@311" /\ s.f = "None" -> [s EXCEPT !.exc = "AttributeError"]
          [] fault = "f.prox@312" /\ s.f # "None" ->
                [s EXCEPT !.exc = "FunctionalError"]
          [] fault = "C@315" /\ s.f # "None" -> [s2 EXCEPT !.exc = "OperatorError"]
          [] fault = "g.prox@316" /\ s.f # "None" ->
                [s2 EXCEPT !.exc = "FunctionalError"]
          [] fault = "none" /\ s.f # "None" -> [s4 EXCEPT !.exc = "None"]

step(s, fault) ==
    LET r == VAdd(VSub(C_apply(s.C, s.x), s.z), s.u)
        proxarg == VSub(s.x, VScale(RDiv(s.mu, s.nu), C_adj(s.C, r)))
        x1 == FProx(s.f, proxarg, s.mu, s.x)
        s1 == [s EXCEPT !.x = x1, !.warm = <<s.x>>]
        s2 == [s1 EXCEPT !.z_old = s1.z, !.aliased = FALSE]
        Cx == C_apply(s.C, s2.x)
        z1 == FProx(s.g, VAdd(Cx, s2.u), s.nu, s2.z)
        s3 == [s2 EXCEPT !.z = z1, !.aliased = FALSE, !.warm = <<s.x, s2.z>>]
        s4 == [s3 EXCEPT !.u = VSub(VAdd(s3.u, Cx), s3.z)]
    IN  CASE fault = "C@311" -> [s EXCEPT !.exc = "OperatorError"]
          [] fault # "C@311" /\ s.f = "None" -> [s EXCEPT !.exc = "AttributeError"]
          [] fault = "f.prox@312" /\ s.f # "None" ->
                [s EXCEPT !.exc = "FunctionalError"]
          [] fault = "C@315" /\ s.f # "None" -> [s2 EXCEPT !.exc = "OperatorError"]
          [] fault = "g.prox@316" /\ s.f # "None" ->
                [s2 EXCEPT !.exc = "FunctionalError"]
          [] fault = "none" /\ s.f # "None" -> [s4 EXCEPT !.exc = "None"]

(***************************************************************************)
(* LinearizedADMM.solve, in the pieces between which a collaborator runs.  *)
(***************************************************************************)
Callbacks == {"None", "observe", "set_maxiter", "set_itnum", "raise"}

\* an exception leaves solve(): nothing after the raising statement runs
abort(s, e) == [s EXCEPT !.pc = "idle", !.exc = e, !.clean = FALSE]

\* a loop_head that tests the counter against the current maxiter
loop_head_Reread(s, clock) ==
    IF s.rng.next < s.n0 + s.maxiter
    THEN [s EXCEPT !.itnum = s.rng.next, !.rng.next = s.rng.next + 1,
                   !.pc = "step"]
    ELSE [s EXCEPT !.timer = timer_stop(s.timer, clock),
                   !.itnum = s.itnum + 1,
                   !.pc = "idle", !.exc = "None", !.ret = Some(s.x),
                   !.budgets = Append(s.budgets, s.m0)]

\* a loop_head that omits the increment after the loop
loop_head_NoIncrement(s, clock) ==
    IF s.rng.next < s.rng.stop
    THEN [s EXCEPT !.itnum = s.rng.next, !.rng.next = s.rng.next + 1,
                   !.pc = "step"]
    ELSE [s EXCEPT !.timer = timer_stop(s.timer, clock),
                   !.pc = "idle", !.exc = "None", !.ret = Some(s.x),
                   !.budgets = Append(s.budgets, s.m0)]

\* the loop header (the next value of the range is assigned to self.itnum)
\* and, when the range is exhausted, the statements after the loop
loop_head(s, clock) ==
    IF s.rng.next < s.rng.stop
    THEN [s EXCEPT !.itnum = s.rng.next, !.rng.next = s.rng.next + 1,
                   !.pc = "step"]
    ELSE [s EXCEPT !.timer = timer_stop(s.timer, clock),
                   !.itnum = s.itnum + 1,
                   !.pc = "idle", !.exc = "None", !.ret = Some(s.x),
                   !.budgets = Append(s.budgets, s.m0)]

\* a solve_enter that restarts the iterates from x, as the constructor does
solve_enter_Reinit(s, callback, clock) ==
    loop_head([s EXCEPT !.timer = timer_start(s.timer, clock),
                        !.rng = [next |-> s.itnum, stop |-> s.itnum + s.maxiter],
                        !.callback = callback, !.exc = "None",
                        !.ev = <<>>, !.n0 = s.itnum, !.m0 = s.maxiter,
                        !.done = 0, !.ret = NoArg, !.ncalls = s.ncalls + 1,
                        !.h0 = Len(s.history),
                        !.z = z_init(s.C, s.x)[1], !.z_old = z_init(s.C, s.x)[2],
                        !.u = u_init(s.C, s.x)],
              clock)

\* timer.start() and the evaluation of range(itnum, itnum + maxiter)
solve_enter(s, callback, clock) ==
    loop_head([s EXCEPT !.timer = timer_start(s.timer, clock),
                        !.rng = [next |-> s.itnum, stop |-> s.itnum + s.maxiter],
                        !.callback = callback, !.exc = "None",
                        !.ev = <<>>, !.n0 = s.itnum, !.m0 = s.maxiter,
                        !.done = 0, !.ret = NoArg, !.ncalls = s.ncalls + 1,
                        !.h0 = Len(s.history)],
              clock)

\* a solve_step that records diagnostics only when there is no callback
solve_step_SkipInsert(s, fault) ==
    LET t == [step(s, fault) EXCEPT !.pre = Attributes(s)]
    IN  IF t.exc # "None"
        THEN abort([t EXCEPT !.faults = IF fault = "none" THEN s.faults
                                        ELSE s.faults + 1], t.exc)
        ELSE [t EXCEPT !.pc = IF s.callback # "None" THEN "callback" ELSE "insert",
                       !.ev = Append(s.ev, "step"),
                       !.done = s.done + 1, !.nsteps = s.nsteps + 1,
                       !.snap = Iterates(t)]

\* self.step()
solve_step(s, fault) ==
    LET t == [step(s, fault) EXCEPT !.pre = Attributes(s)]
    IN  IF t.exc # "None"
        THEN abort([t EXCEPT !.faults = IF fault = "none" THEN s.faults
                                        ELSE s.faults + 1], t.exc)
        ELSE [t EXCEPT !.pc = "insert", !.ev = Append(s.ev, "step"),
                       !.done = s.done + 1, !.nsteps = s.nsteps + 1,
                       !.snap = Iterates(t)]

\* a solve_insert that leaves the timer running over the callback
solve_insert_TimerOn(s, clock) ==
    LET r == itstat_insert_func(s, clock)
        t == [s EXCEPT !.history = Append(s.history, r.rec),
                       !.ev = Append(s.ev, "insert")]
    IN  IF r.exc # "None"
        THEN abort(s, r.exc)
        ELSE IF s.callback # "None"
             THEN [t EXCEPT !.pc = "callback"]
             ELSE loop_head(t, clock)

\* itstat_object.insert(itstat_insert_func(self)), then either the callback
\* branch up to timer.stop() or the next turn of the loop
solve_insert(s, clock) ==
    LET r == itstat_insert_func(s, clock)
        t == [s EXCEPT !.history = Append(s.history, r.rec),
                       !.ev = Append(s.ev, "insert")]
    IN  IF r.exc # "None"
        THEN abort(s, r.exc)
        ELSE IF s.callback # "None"
             THEN [t EXCEPT !.timer = timer_stop(s.timer, clock),
                            !.pc = "callback"]
             ELSE loop_head(t, clock)

\* what the callback does to the solver it is handed
callback_effect(s, v) ==
    CASE s.callback = "set_maxiter" -> [s EXCEPT !.maxiter = v]
      [] s.callback = "set_itnum" -> [s EXCEPT !.itnum = 0]
      [] OTHER -> s

\* callback(self), timer.start() and the next turn of the loop
solve_callback(s, v, clock) ==
    LET t == [callback_effect(s, v) EXCEPT !.ev = Append(s.ev, "callback")]
    IN  IF s.callback = "raise"
        THEN abort(t, "CallbackError")
        ELSE loop_head([t EXCEPT !.timer = timer_start(t.timer, clock)], clock)

(***************************************************************************)
(* The driver: the calls a program makes on its solvers, one at a time.    *)
(***************************************************************************)
FSet == {"None", "ZeroFunctional", "SquaredL2Loss"}
GSet == {"NonNegativeIndicator", "L1Norm", "DnCNN"}
Params == {<< <<1, 2>>, R(1) >>, << R(0), R(1) >>}
X0Set == {NoArg, Some(<<R(-1), R(2)>>), Some(<<R(1), R(0), R(0)>>)}
ArgX == {NoArg, Some(<<R(1), R(-1)>>)}
ArgZ == {NoArg, Some(<<R(0), R(3)>>)}

\* obs: the last query of the driver (a call that returns a value and leaves
\* the solver as it is), with its arguments and its outcome
NoOut == [exc |-> "None", val |-> R(0), evals |-> <<>>]
Obs(op, i, x, z, out) == [op |-> op, i |-> i, x |-> x, z |-> z, out |-> out]
NoObs == Obs("none", 0, NoArg, NoArg, NoOut)

Init ==
    /\ slv = [i \in Inst |-> Unbuilt]
    /\ now = 0
    /\ obs = NoObs

Idle(i) == slv[i].pc = "idle"

\* one thread: a call starts only when no solve() of another solver is running
NoneRunning == \A j \in Inst : slv[j].pc \in {"new", "idle"}

\* solver = LinearizedADMM(f, g, C, mu, nu, x0, maxiter)
Construct(i, fs, gs, cps, xs) ==
    /\ slv[i].pc = "new" /\ slv[i].exc = "None"
    /\ \E f \in fs, g \in gs, cp \in cps, x0 \in xs, m \in {0, 1} :
          slv' = [slv EXCEPT ![i] = init(f, g, cp[1], cp[2][1], cp[2][2], x0, m)]
    /\ obs' = NoObs
    /\ UNCHANGED now

\* twin = LinearizedADMM(...) with the arguments solver j was built with,
\* before solver j has been used
ConstructTwin(i, j) ==
    /\ slv[i].pc = "new" /\ slv[i].exc = "None"
    /\ Idle(j) /\ slv[j].ncalls = 0 /\ slv[j].nsteps = 0
    /\ slv' = [slv EXCEPT ![i] = init(slv[j].f, slv[j].g, slv[j].C, slv[j].mu,
                                      slv[j].nu, Some(slv[j].x), slv[j].maxiter)]
    /\ obs' = NoObs
    /\ UNCHANGED now

\* solver.maxiter = m, between two calls
SetMaxiter(i) ==
    /\ Idle(i) /\ NoneRunning
    /\ \E m \in 1..MaxBudget :
          /\ m # slv[i].maxiter
          /\ slv' = [slv EXCEPT ![i].maxiter = m]
    /\ obs' = NoObs
    /\ UNCHANGED now

\* solver.solve(callback): entry, up to the first step() or the return
SolveStart(i, cbs) ==
    /\ Idle(i) /\ NoneRunning
    /\ slv[i].ncalls < MaxCalls
    /\ slv[i].nsteps + slv[i].maxiter <= MaxSteps
    /\ \E cb \in cbs :
          slv' = [slv EXCEPT ![i] = solve_enter(slv[i], cb, now)]
    /\ obs' = NoObs
    /\ UNCHANGED now

SolveStep(i, faults) ==
    /\ slv[i].pc = "step"
    /\ \E fault \in faults \cup {"none"} :
          /\ fault = "none" \/ slv[i].faults < MaxFaults
          /\ slv' = [slv EXCEPT ![i] = solve_step(slv[i], fault)]
    /\ now' = now + 1
    /\ obs' = NoObs

SolveInsert(i) ==
    /\ slv[i].pc = "insert"
    /\ slv' = [slv EXCEPT ![i] = solve_insert(slv[i], now)]
    /\ obs' = NoObs
    /\ UNCHANGED now

SolveCallback(i) ==
    /\ slv[i].pc = "callback"
    /\ \E v \in {0, MaxBudget} :
          slv' = [slv EXCEPT ![i] = solve_callback(slv[i], v, now + 1)]
    /\ now' = now + 1
    /\ obs' = NoObs

\* solver.step(), called by the driver itself
StepCall(i, faults) ==
    /\ Idle(i)
    /\ slv[i].nsteps < MaxSteps
    /\ \E fault \in faults \cup {"none"} :
          /\ fault = "none" \/ slv[i].faults < MaxFaults
          /\ LET t == [step(slv[i], fault) EXCEPT !.pre = Attributes(slv[i])]
             IN  slv' = [slv EXCEPT ![i] =
                    [t EXCEPT !.clean = FALSE,
                              !.nsteps = IF t.exc = "None" THEN @ + 1 ELSE @,
                              !.snap = IF t.exc = "None" THEN Iterates(t) ELSE @,
                              !.faults = IF fault = "none" THEN @ ELSE @ + 1]]
    /\ obs' = NoObs
    /\ UNCHANGED now

\* solver.objective(x, z)
ObjectiveCall(i) ==
    /\ Idle(i)
    /\ \E x \in ArgX, z \in ArgZ :
          obs' = Obs("objective", i, x, z, objective(slv[i], x, z))
    /\ UNCHANGED <<slv, now>>

\* solver.norm_primal_residual(x)
NormPrimalCall(i) ==
    /\ Idle(i)
    /\ \E x \in ArgX :
          obs' = Obs("norm_primal_residual", i, x, NoArg,
                     [NoOut EXCEPT !.val = norm_primal_residual(slv[i], x)])
    /\ UNCHANGED <<slv, now>>

\* the solve() loop under every callback that returns
Next ==
    \/ Construct(1, FSet, GSet, LinOps \X Params, X0Set)
    \/ SetMaxiter(1)
    \/ SolveStart(1, Callbacks \ {"raise"})
    \/ SolveStep(1, {})
    \/ SolveInsert(1)
    \/ SolveCallback(1)

Spec == Init /\ [][Next]_vars

\* the solve() loop with failing collaborators and a raising callback
NextFail ==
    \/ Construct(1, FSet, GSet, LinOps \X Params, X0Set)
    \/ SetMaxiter(1)
    \/ SolveStart(1, {"None", "observe", "raise"})
    \/ SolveStep(1, Faults)
    \/ SolveInsert(1)
    \/ SolveCallback(1)

SpecFail == Init /\ [][NextFail]_vars

\* the Gram matrix C^T C of an operator with integer entries
Gram(C) ==
    [j \in 1..input_shape(C) |->
        [k \in 1..input_shape(C) |->
            RSum([r \in 1..output_shape(C) |-> R(C[r][j] * C[r][k])])[1]]]

\* ||C||_2^2 < q for an operator C of two columns and a rational q: the
\* larger eigenvalue (T + sqrt(T^2 - 4 D)) / 2 of the Gram matrix, of trace T
\* and determinant D, is below q
NormSqBelow(C, q) ==
    LET G == Gram(C)
        T == G[1][1] + G[2][2]
        D == G[1][1] * G[2][2] - G[1][2] * G[2][1]
        gap == 2 * q[1] - T * q[2]
    IN  gap > 0 /\ (T * T - 4 * D) * q[2] * q[2] < gap * gap

\* a pair (mu, nu) with a step small enough for either operator
SmallStep == << <<1, 4>>, R(1) >>

\* the parameters the class is documented to require for an operator C:
\* 0 < mu < nu * ||C||_2^-2
GoodParams(C) ==
    {p \in Params \cup {SmallStep} :
        p[1][1] > 0 /\ p[2][1] > 0 /\ NormSqBelow(C, RDiv(p[2], p[1]))}

\* an operator with parameters that meet the requirement
GoodArgs == {cp \in LinOps \X (Params \cup {SmallStep}) : cp[2] \in GoodParams(cp[1])}
GoodX0 == {x0 \in X0Set : x0 = NoArg \/ \A C \in LinOps : Len(x0[1]) = input_shape(C)}

\* two solvers built from the same arguments and run without callback: the
\* twin makes a single call, then the other solver makes its calls
NextPair ==
    \/ Construct(1, FSet \ {"None"}, {g \in GSet : has_eval(g)}, GoodArgs, GoodX0)
    \/ ConstructTwin(2, 1)
    \/ (slv[2].ncalls = 0 /\ SetMaxiter(2))
    \/ (slv[2].ncalls = 0 /\ SolveStart(2, {"None"}))
    \/ SolveStep(2, {})
    \/ SolveInsert(2)
    \/ (slv[2].ncalls > 0 /\ SetMaxiter(1))
    \/ (slv[2].ncalls > 0 /\ SolveStart(1, {"None"}))
    \/ SolveStep(1, {})
    \/ SolveInsert(1)

SpecPair == Init /\ [][NextPair]_vars

\* the methods a driver calls itself: step() and the queries
NextCalls ==
    \/ Construct(1, FSet, GSet, LinOps \X Params, X0Set)
    \/ StepCall(1, Faults)
    \/ ObjectiveCall(1)
    \/ NormPrimalCall(1)

SpecCalls == Init /\ [][NextCalls]_vars

(***************************************************************************)
(* Properties.                                                             *)
(***************************************************************************)
\* solve() of solver i has returned normally (its last call was not aborted)
Returned(i) == Idle(i) /\ slv[i].ret # NoArg

\* C1 as stated: a solve() call with budget m >= 1 that returns normally
\* leaves itnum at its value before the call plus m, whatever the callback.
C1_ItnumAdvancesAnyCallback ==
    \A i \in Inst :
        (Returned(i) /\ slv[i].m0 >= 1) => slv[i].itnum = slv[i].n0 + slv[i].m0

\* C1 amended: a solve() call with budget m >= 1 that returns normally and
\* whose callback does not assign itnum leaves itnum at its value before the
\* call plus m; and no such call, returned or aborted, leaves itnum below the
\* value it had before the call, so it never decreases over a sequence of calls.
C1_ItnumAdvances ==
    \A i \in Inst :
        (slv[i].ncalls > 0 /\ slv[i].callback # "set_itnum") =>
            /\ (Returned(i) /\ slv[i].m0 >= 1) =>
                    slv[i].itnum = slv[i].n0 + slv[i].m0
            /\ Idle(i) => slv[i].itnum >= slv[i].n0

\* a second call in sequence has returned, with a callback, above a nonzero start
C1_Witness ==
    /\ Returned(1) /\ slv[1].ncalls = 2 /\ slv[1].callback = "observe"
    /\ slv[1].n0 >= 1 /\ slv[1].m0 = 2 /\ slv[1].itnum = slv[1].n0 + 2

\* solver i has only been driven by solve() calls that returned, with the
\* budgets bs in this order
RanBudgets(i, bs) ==
    /\ Idle(i) /\ slv[i].clean
    /\ slv[i].budgets = bs /\ slv[i].ncalls = Len(bs)

\* the state the resumability property compares
SolverState(s) == <<s.x, s.z, s.z_old, s.u, s.itnum>>

\* C2: from the same constructed state, solve() with budget m1 and then with
\* budget m2 ends in the same (x, z, z_old, u, itnum) as one solve() with
\* budget m1 + m2.
C2_Resumable ==
    \A m1, m2 \in 1..MaxBudget :
        (RanBudgets(1, <<m1, m2>>) /\ RanBudgets(2, <<m1 + m2>>)) =>
            SolverState(slv[1]) = SolverState(slv[2])

\* both runs have happened and the iterates have moved away from the start
C2_Witness ==
    /\ RanBudgets(1, <<1, 1>>) /\ RanBudgets(2, <<2>>)
    /\ slv[1].itnum = 2 /\ slv[1].u # Zeros(Len(slv[1].u))
    /\ slv[1].x # slv[1].z_old

\* the events of k full iterations of the loop, with or without a callback
RECURSIVE LoopEvents(_, _)
LoopEvents(k, withCallback) ==
    IF k = 0 THEN <<>>
    ELSE LoopEvents(k - 1, withCallback) \o
         (IF withCallback THEN <<"step", "insert", "callback">>
                          ELSE <<"step", "insert">>)

IsPrefix(a, b) == Len(a) <= Len(b) /\ a = SubSeq(b, 1, Len(a))

Count(seq, e) == Cardinality({k \in 1..Len(seq) : seq[k] = e})

\* C3: in every iteration of solve() the events are step(), then one record
\* inserted, then (with a callback) one callback invocation, nothing being
\* inserted or called back before the iteration's step(); and solve() returns
\* the x of the last step().
C3_IterationOrder ==
    \A i \in Inst :
        slv[i].ncalls > 0 =>
            /\ IsPrefix(slv[i].ev, LoopEvents(slv[i].m0, slv[i].callback # "None"))
            /\ Count(slv[i].ev, "step") = slv[i].done
            /\ Len(slv[i].history) - slv[i].h0 = Count(slv[i].ev, "insert")
            /\ (Returned(i) /\ slv[i].done >= 1) =>
                    slv[i].ret = Some(slv[i].snap[1])

\* a call with a callback and two iterations has returned
C3_Witness ==
    /\ Returned(1) /\ slv[1].callback = "observe" /\ slv[1].m0 = 2
    /\ slv[1].ev = <<"step", "insert", "callback", "step", "insert", "callback">>
    /\ Len(slv[1].history) = slv[1].h0 + 2

\* C4: the timer is stopped whenever the callback is executing, running
\* during every step() and diagnostics insert, and stopped when solve() has
\* returned; the time it has accumulated on a solver driven only by calls
\* that returned is the time of the steps, none of the callbacks'.
C4_TimerExcludesCallback ==
    \A i \in Inst :
        /\ slv[i].pc = "callback" => ~slv[i].timer.running
        /\ slv[i].pc \in {"step", "insert"} => slv[i].timer.running
        /\ Returned(i) => ~slv[i].timer.running
        /\ (Returned(i) /\ slv[i].clean) => slv[i].timer.total = slv[i].nsteps

\* a callback is executing; and a call with callbacks has returned
C4_Witness ==
    /\ slv[1].pc = "callback" /\ slv[1].done = 2 /\ ~slv[1].timer.running
    /\ slv[1].timer.total = 2 /\ now > 2

\* C5: a solve() call entered with maxiter = m that returns has executed
\* exactly m step() calls, whatever the callback did to maxiter or itnum.
C5_FullBudget ==
    \A i \in Inst : Returned(i) => slv[i].done = slv[i].m0

\* a call whose callback changed maxiter has returned after its m = 2 steps
C5_Witness ==
    /\ Returned(1) /\ slv[1].callback = "set_maxiter" /\ slv[1].m0 = 2
    /\ slv[1].maxiter # slv[1].m0 /\ slv[1].done = 2

\* the last solve() call of solver i was aborted by a collaborator of step()
StepFailed(i) ==
    /\ Idle(i) /\ slv[i].ncalls > 0
    /\ slv[i].exc \in {"OperatorError", "FunctionalError"}

\* C6: when a call of the operator or of a prox fails inside step(), solve()
\* is aborted and x, z, z_old, u are those after the last step() that
\* completed: the failing step has updated none of them.
C6_FailedStepAtomic ==
    \A i \in Inst : StepFailed(i) => Iterates(slv[i]) = slv[i].snap

Built(i) == slv[i].pc # "new"

\* C7: a solver is built only with mu > 0, nu > 0, maxiter > 0 and an x0 of
\* C's input shape, so no solver with another parameter reaches step() or
\* solve().  (Before the first call maxiter is the constructor's or a
\* positive value assigned since.)
C7_ParametersValidated ==
    \A i \in Inst :
        Built(i) =>
            /\ slv[i].mu[1] > 0 /\ slv[i].nu[1] > 0
            /\ slv[i].ncalls = 0 => slv[i].maxiter > 0
            /\ Len(slv[i].x) = input_shape(slv[i].C)

\* f(x) + g(z) with an absent f contributing nothing
ObjectiveAt(s, x, z) ==
    EAdd(IF s.f = "None" THEN R(0) ELSE FEval(s.f, x), FEval(s.g, z))

\* C8: objective(x, z) raises the argument error exactly when one of x and z
\* is supplied without the other, and then before f or g is evaluated; with
\* both it returns f(x) + g(z) at the arguments, with neither at the current
\* self.x, self.z (g being evaluable).
C8_ObjectiveArguments ==
    obs.op = "objective" =>
        LET s == slv[obs.i]
            one == (obs.x = NoArg) # (obs.z = NoArg)
        IN  /\ one => (obs.out.exc = "ValueError" /\ obs.out.evals = <<>>)
            /\ ~one => obs.out.exc # "ValueError"
            /\ (~one /\ has_eval(s.g)) =>
                  /\ obs.out.exc = "None"
                  /\ obs.out.val = IF obs.x = NoArg
                                   THEN ObjectiveAt(s, s.x, s.z)
                                   ELSE ObjectiveAt(s, obs.x[1], obs.z[1])

\* objective was called with both arguments, away from the current iterate,
\* on a solver with both functionals, and returned a nonzero value
C8_Witness ==
    /\ obs.op = "objective" /\ obs.x # NoArg /\ obs.z # NoArg
    /\ slv[1].f = "SquaredL2Loss" /\ slv[1].g = "L1Norm"
    /\ slv[1].x # obs.x[1] /\ slv[1].nsteps > 0
    /\ obs.out.exc = "None" /\ obs.out.val = <<5, 1>>

\* C9: with the default schema and a g that cannot be evaluated, solve()
\* completes its maxiter iterations without raising and appends one record
\* of four values per iteration.
C9_NoEvalSchemaSolves ==
    \A i \in Inst :
        (Idle(i) /\ slv[i].ncalls > 0 /\ ~has_eval(slv[i].g) /\ slv[i].f # "None") =>
            /\ slv[i].exc = "None"
            /\ Len(slv[i].history) = slv[i].h0 + slv[i].m0
            /\ \A k \in 1..Len(slv[i].history) : Len(slv[i].history[k]) = 4

\* C10: a solver built with f absent runs step() without error, f acting as
\* the zero functional (x becomes the gradient-step point).
C10_AbsentFIsZero ==
    \A i \in Inst :
        (Idle(i) /\ slv[i].ncalls > 0 /\ slv[i].f = "None" /\ slv[i].m0 >= 1) =>
            /\ slv[i].done >= 1
            /\ slv[i].exc # "AttributeError"

\* the point a norm_primal_residual call is asked to evaluate: the argument,
\* or the solver's iterate when the argument is omitted
AskedPoint(s, x) == IF x = NoArg THEN s.x ELSE x[1]

\* C11: norm_primal_residual(x) returns the norm of C(x) - z for the x
\* passed in, whether or not it is the solver's iterate, and for the
\* solver's iterate only when x is omitted.
C11_ResidualAtArgument ==
    (obs.op = "norm_primal_residual") =>
        LET s == slv[obs.i]
        IN  obs.out.val = norm(VSub(C_apply(s.C, AskedPoint(s, obs.x)), s.z))

\* the end-to-end scenario: C the 2x2 identity, f the zero functional, g the
\* indicator of the non-negative orthant, mu = 0.5, nu = 1.0, x0 = [-1, 2],
\* after n step() calls from the constructed state, none of them failing
Scenario(i, n) ==
    /\ Built(i) /\ slv[i].f = "ZeroFunctional"
    /\ slv[i].g = "NonNegativeIndicator" /\ slv[i].C = Identity
    /\ slv[i].mu = <<1, 2>> /\ slv[i].nu = R(1)
    /\ slv[i].x0 = <<R(-1), R(2)>>
    /\ slv[i].nsteps = n /\ slv[i].faults = 0

\* C12 as stated: in the scenario the primal iterate x is [0, 2] after one
\* iteration.
C12_ScenarioXAfterOne ==
    \A i \in Inst : Scenario(i, 1) => slv[i].x = <<R(0), R(2)>>

\* C12: in the scenario one iteration leaves x at [-1, 2] and takes z to
\* [0, 2] and u to [-1, 0]; x is [0, 2] after the second iteration.
C12_Scenario ==
    \A i \in Inst :
        /\ Scenario(i, 1) =>
              /\ slv[i].x = <<R(-1), R(2)>>
              /\ slv[i].z = <<R(0), R(2)>>
              /\ slv[i].u = <<R(-1), R(0)>>
        /\ Scenario(i, 2) => slv[i].x = <<R(0), R(2)>>

C12_Witness ==
    \E i \in Inst :
        Scenario(i, 2) /\ slv[i].pre.x = <<R(-1), R(2)>>
                       /\ slv[i].pre.z = <<R(0), R(2)>>

\* the latest direct step() call on solver i completed; slv[i].pre is the
\* solver as that call found it
Stepped(i) == Built(i) /\ slv[i].pre # <<>> /\ slv[i].exc = "None"

\* the constraint C(x) = z held when the latest step() call began
WasFeasible(i) == C_apply(slv[i].C, slv[i].pre.x) = slv[i].pre.z

\* C13 as stated: a step() from a state with C(x) = z whose dual update
\* leaves u unchanged leaves x and z unchanged too.
C13_FixedPointFromDual ==
    \A i \in Inst :
        (Stepped(i) /\ WasFeasible(i) /\ slv[i].u = slv[i].pre.u) =>
            (slv[i].x = slv[i].pre.x /\ slv[i].z = slv[i].pre.z)

\* C13: a step() from a state with C(x) = z whose x-update leaves x
\* unchanged and whose dual update leaves u unchanged leaves z unchanged
\* too, so x, z and u are all unchanged by the step.
C13_FixedPoint ==
    \A i \in Inst :
        (Stepped(i) /\ WasFeasible(i) /\ slv[i].x = slv[i].pre.x
                    /\ slv[i].u = slv[i].pre.u) =>
            slv[i].z = slv[i].pre.z

C13_Witness ==
    \E i \in Inst :
        /\ Stepped(i) /\ WasFeasible(i) /\ slv[i].C = Shear
        /\ slv[i].pre.x = <<R(-1), R(2)>> /\ slv[i].x = slv[i].pre.x
        /\ slv[i].u = slv[i].pre.u /\ slv[i].z = <<R(1), R(2)>>

\* C14: with no itstat override the diagnostics schema of a solver is
\* (Iter, Time, Objective, Primal Rsdl, Dual Rsdl) when g.has_eval and
\* (Iter, Time, Primal Rsdl, Dual Rsdl) when not; it is fixed at construction
\* and stays the same through every later step() and solve() call, and every
\* record of the history has one value per field.
C14_SchemaByHasEval ==
    \A i \in Inst :
        Built(i) =>
            /\ has_eval(slv[i].g) =>
                  slv[i].fields =
                      <<"Iter", "Time", "Objective", "Primal Rsdl", "Dual Rsdl">>
            /\ ~has_eval(slv[i].g) =>
                  slv[i].fields = <<"Iter", "Time", "Primal Rsdl", "Dual Rsdl">>
            /\ \A k \in 1..Len(slv[i].history) :
                  Len(slv[i].history[k]) = Len(slv[i].fields)

C14_Witness ==
    \E i \in Inst :
        /\ Built(i) /\ ~has_eval(slv[i].g) /\ slv[i].nsteps >= 1
        /\ slv[i].ncalls >= 1
        /\ slv[i].fields = <<"Iter", "Time", "Primal Rsdl", "Dual Rsdl">>

\* solve() on solver i has just come back from a step() that completed
JustStepped(i) == slv[i].pc = "insert" /\ slv[i].pre # <<>>

\* the reference x-update from the attributes p of a solver s
RefX(s, p) ==
    FProx(s.f,
          VSub(p.x, VScale(RDiv(p.mu, p.nu),
                           C_adj(s.C, VAdd(VSub(C_apply(s.C, p.x), p.z), p.u)))),
          p.mu, p.x)

\* the reference z-update from the attributes p and the new iterate x
RefZ(s, p, x) == FProx(s.g, VAdd(C_apply(s.C, x), p.u), p.nu, p.z)

\* C15: one step() from (x, z, u) gives x' = prox_{mu f}(x - (mu/nu) C^T(C(x)
\* - z + u)) warm-started from x, z_old' = a copy of the old z that is
\* another object than z', z' = prox_{nu g}(C(x') + u) with the old u and
\* warm-started from the old z, u' = u + C(x') - z'; itnum, the history, mu,
\* nu and maxiter are as before the step.
C15_StepIsReferenceUpdate ==
    \A i \in Inst :
        JustStepped(i) =>
            LET s == slv[i]
                p == s.pre
            IN  /\ s.x = RefX(s, p)
                /\ s.z_old = p.z /\ ~s.aliased
                /\ s.z = RefZ(s, p, s.x)
                /\ s.u = VSub(VAdd(p.u, C_apply(s.C, s.x)), s.z)
                /\ s.warm = <<p.x, p.z>>
                /\ s.itnum = p.itnum /\ s.history = p.history
                /\ s.mu = p.mu /\ s.nu = p.nu /\ s.maxiter = p.maxiter

C15_Witness ==
    \E i \in Inst :
        /\ JustStepped(i) /\ slv[i].itnum >= 1 /\ Len(slv[i].history) >= 1
        /\ slv[i].C = Shear /\ slv[i].pre.u # Zeros(output_shape(Shear))
        /\ slv[i].x # slv[i].pre.x /\ slv[i].z # slv[i].pre.z
        /\ slv[i].u # slv[i].pre.u /\ slv[i].z_old # slv[i].z

\* a solve() call on solver i was aborted by a failure that propagated
Aborted(i) ==
    /\ Idle(i) /\ slv[i].ncalls > 0 /\ slv[i].ret = NoArg
    /\ slv[i].exc # "None"

\* C16: after a solve() call is aborted by a failure of step(), of the
\* diagnostics insert or of the callback, itnum is its value before the call
\* plus the number of step() calls that completed during the call.
C16_AbortKeepsCount ==
    \A i \in Inst :
        Aborted(i) => slv[i].itnum = slv[i].n0 + slv[i].done

====
